---- MODULE Spec2Model ----
(***************************************************************************)
(* Safe dial puzzle (advent-of-code-2025, day 1).                          *)
(*                                                                         *)
(* Two programs share the parser and the driver:                           *)
(*   day_1_safe_puzzle  runs rotate_knob_solution_one over the whole       *)
(*                      command list, prints, then runs                    *)
(*                      rotate_knob_solution_two from a fresh knob;        *)
(*   task_1_safe_puzzle runs rotate_knob (same arithmetic as solution one) *)
(*                      and prints once.                                   *)
(*                                                                         *)
(* A line of text is a tuple of one-character strings, <<"R","1","2">>.    *)
(* i32 values are kept inside [I32Min, I32Max]; an addition that leaves    *)
(* the range either panics (overflow checks on) or wraps (checks off).     *)
(***************************************************************************)
EXTENDS Integers, Sequences, FiniteSets, TLC

(***************************************************************************)
(* Bounds of the model.                                                    *)
(***************************************************************************)
\* longest line of the exhaustively enumerated parser inputs
MaxLen == 3
\* longest command list handed to a simulator
MaxCmds == 3
\* longest input file (in lines) of the driver
MaxLines == 2
\* largest distance of the exhaustively enumerated command lists
MaxDist == 99
\* how far below zero the model follows the countdown of solution two
MaxUnderrun == 8

(***************************************************************************)
(* Machine integers.                                                       *)
(***************************************************************************)
I32Max == 2147483647
I32Min == -I32Max - 1

\* Rust's % on i32: the remainder takes the sign of the dividend.
Rem(a, b) == IF a >= 0 THEN a % b ELSE IF a % b = 0 THEN 0 ELSE (a % b) - b

\* mathematical modulo, result in 0..b-1 (used by the claims only)
MathMod(a, b) == a % b

AddOverflows(a, b) == \/ b > 0 /\ a > I32Max - b
                      \/ b < 0 /\ a < I32Min - b

SubOverflows(a, b) == \/ b < 0 /\ a > I32Max + b
                      \/ b > 0 /\ a < I32Min + b

\* a + b reduced into the i32 range (two's complement wrap)
WrappingAdd(a, b) ==
    IF b > 0 /\ a > I32Max - b THEN (a - I32Max - 1) + (b - I32Max - 1)
    ELSE IF b < 0 /\ a < I32Min - b THEN (a + I32Max + 1) + (b + I32Max + 1)
    ELSE a + b

\* a - b reduced into the i32 range (two's complement wrap)
WrappingSub(a, b) ==
    IF b < 0 /\ a > I32Max + b THEN (a - I32Max - 1) - (b + I32Max + 1)
    ELSE IF b > 0 /\ a < I32Min + b THEN (a + I32Max + 1) + ((I32Max - b) + 1)
    ELSE a - b

(***************************************************************************)
(* Characters and text.                                                    *)
(***************************************************************************)
Digits == {"0", "1", "2", "3", "4", "5", "6", "7", "8", "9"}

DigitVal(c) ==
    CASE c = "0" -> 0 [] c = "1" -> 1 [] c = "2" -> 2 [] c = "3" -> 3
      [] c = "4" -> 4 [] c = "5" -> 5 [] c = "6" -> 6 [] c = "7" -> 7
      [] c = "8" -> 8 [] c = "9" -> 9

DigitChar(n) ==
    CASE n = 0 -> "0" [] n = 1 -> "1" [] n = 2 -> "2" [] n = 3 -> "3"
      [] n = 4 -> "4" [] n = 5 -> "5" [] n = 6 -> "6" [] n = 7 -> "7"
      [] n = 8 -> "8" [] n = 9 -> "9"

IsWhitespace(c) == c = " "

RECURSIVE trim_start(_)
trim_start(s) ==
    IF s # <<>> /\ IsWhitespace(Head(s)) THEN trim_start(Tail(s)) ELSE s

RECURSIVE trim_end(_)
trim_end(s) ==
    IF s # <<>> /\ IsWhitespace(s[Len(s)])
    THEN trim_end(SubSeq(s, 1, Len(s) - 1))
    ELSE s

\* str::trim
trim(s) == trim_end(trim_start(s))

(***************************************************************************)
(* Direction                                                               *)
(***************************************************************************)
Directions == {"Left", "Right"}

get_direction_literal(d) == IF d = "Left" THEN "L" ELSE "R"

\* TryFrom<char> for Direction
try_from(value) ==
    CASE value = "R" -> [ok |-> TRUE, direction |-> "Right", unsupported |-> ""]
      [] value = "L" -> [ok |-> TRUE, direction |-> "Left", unsupported |-> ""]
      [] OTHER -> [ok |-> FALSE, direction |-> "", unsupported |-> value]

(***************************************************************************)
(* i32::from_str, as called by distance_str.parse()                        *)
(***************************************************************************)
IntOk(n) == [ok |-> TRUE, value |-> n, kind |-> ""]
IntErr(k) == [ok |-> FALSE, value |-> 0, kind |-> k]

\* folds the digits left to right with checked multiply and add (or
\* subtract, for a negative literal)
RECURSIVE accumulate(_, _, _)
accumulate(s, acc, positive) ==
    IF s = <<>> THEN IntOk(acc)
    ELSE IF Head(s) \notin Digits THEN IntErr("InvalidDigit")
    ELSE LET d == DigitVal(Head(s))
             q == I32Max \div 10
         IN  IF positive
             THEN IF acc > q \/ (acc = q /\ d > I32Max % 10)
                  THEN IntErr("PosOverflow")
                  ELSE accumulate(Tail(s), acc * 10 + d, positive)
             ELSE IF acc < -q \/ (acc = -q /\ d > (I32Max % 10) + 1)
                  THEN IntErr("NegOverflow")
                  ELSE accumulate(Tail(s), acc * 10 - d, positive)

from_str(s) ==
    IF s = <<>> THEN IntErr("Empty")
    ELSE IF s = <<"+">> \/ s = <<"-">> THEN IntErr("InvalidDigit")
    ELSE IF Head(s) = "+" THEN accumulate(Tail(s), 0, TRUE)
    ELSE IF Head(s) = "-" THEN accumulate(Tail(s), 0, FALSE)
    ELSE accumulate(s, 0, TRUE)

(***************************************************************************)
(* RotationCommand                                                         *)
(***************************************************************************)
Command(d, n) == [direction |-> d, distance |-> n]

ParseOk(d, n) ==
    [kind |-> "Ok", direction |-> d, distance |-> n,
     input |-> <<>>, dir |-> "", source |-> ""]

ParseErr(k, in, ch, src) ==
    [kind |-> k, direction |-> "", distance |-> 0,
     input |-> in, dir |-> ch, source |-> src]

\* parse with the distance read before the direction is looked at
parse_distance_first(line) ==
    LET input == trim(line) IN
    IF input = <<>> THEN ParseErr("EmptyInput", <<>>, "", "")
    ELSE
      LET dir_ch == Head(input)
          direction == try_from(dir_ch)
          distance_str == Tail(input)
          distance == from_str(distance_str)
      IN  IF distance_str = <<>>
          THEN ParseErr("MissingDistance", input, "", "")
          ELSE IF ~distance.ok
          THEN ParseErr("InvalidDistance", input, "", distance.kind)
          ELSE IF ~direction.ok
          THEN ParseErr("InvalidDirection", input, dir_ch, "Unsupported")
          ELSE ParseOk(direction.direction, distance.value)

\* RotationCommand::parse
parse(line) ==
    LET input == trim(line) IN
    IF input = <<>> THEN ParseErr("EmptyInput", <<>>, "", "")
    ELSE
      LET dir_ch == Head(input)
          direction == try_from(dir_ch)
          distance_str == Tail(input)
          distance == from_str(distance_str)
      IN  IF ~direction.ok
          THEN ParseErr("InvalidDirection", input, dir_ch, "Unsupported")
          ELSE IF distance_str = <<>>
          THEN ParseErr("MissingDistance", input, "", "")
          ELSE IF ~distance.ok
          THEN ParseErr("InvalidDistance", input, "", distance.kind)
          ELSE ParseOk(direction.direction, distance.value)

\* Display for i32: decimal digits, "-" in front of a negative value
RECURSIVE fmt_i32(_)
fmt_i32(n) ==
    IF n >= 0
    THEN IF n < 10 THEN <<DigitChar(n)>>
         ELSE Append(fmt_i32(n \div 10), DigitChar(n % 10))
    ELSE LET r == n % 10
             last == IF r = 0 THEN 0 ELSE 10 - r
             quot == IF r = 0 THEN n \div 10 ELSE (n \div 10) + 1
         IN  IF quot = 0 THEN <<"-", DigitChar(last)>>
             ELSE Append(fmt_i32(quot), DigitChar(last))

\* to_string with the direction written by its variant name
to_string_debug(c) == <<c.direction>> \o fmt_i32(c.distance)

\* Display for RotationCommand: "{direction}{distance}"
to_string(c) == <<get_direction_literal(c.direction)>> \o fmt_i32(c.distance)

(***************************************************************************)
(* SafeDialKnob                                                            *)
(***************************************************************************)
\* SafeDialKnob::init / Default
init == [current_position |-> 50, zero_position_occurrence |-> 0]

\* the match of rotate_knob_solution_one / rotate_knob does not fit in i32
rotation_overflows(current, command) ==
    IF command.direction = "Right"
    THEN AddOverflows(current, command.distance)
    ELSE SubOverflows(current, command.distance)

\* the match with the Left arm copied from the Right arm
rotated_left_adds(current, command) ==
    Rem(WrappingAdd(current, command.distance), 100)

\* the match of rotate_knob_solution_one / rotate_knob: one jump, then %
rotated(current, command) ==
    IF command.direction = "Right"
    THEN Rem(WrappingAdd(current, command.distance), 100)
    ELSE Rem(WrappingSub(current, command.distance), 100)

\* end-of-rotation counting that starts the count over away from zero
knob_after_rotation_reset(knob, command) ==
    LET current == rotated(knob.current_position, command)
    IN  [current_position |-> current,
         zero_position_occurrence |->
             IF current = 0 THEN knob.zero_position_occurrence + 1 ELSE 0]

\* the knob after one whole command under end-of-rotation counting
knob_after_rotation(knob, command) ==
    LET current == rotated(knob.current_position, command)
    IN  [current_position |-> current,
         zero_position_occurrence |->
             IF current = 0 THEN knob.zero_position_occurrence + 1
             ELSE knob.zero_position_occurrence]

\* one click on a dial that wraps one position early
clicked_mod_99(cur, direction) ==
    IF direction = "Right" THEN Rem(cur + 1, 99) ELSE Rem(cur - 1, 99)

\* the match inside the while loop of rotate_knob_solution_two: one click
clicked(cur, direction) ==
    IF direction = "Right" THEN Rem(cur + 1, 100) ELSE Rem(cur - 1, 100)

\* the while loop of rotate_knob_solution_two in closed form: the clicks it
\* takes from cur until the dial first lands on 0
clicks_to_zero(cur, direction) ==
    LET j == IF direction = "Right" THEN MathMod(-cur, 100)
             ELSE MathMod(cur, 100)
    IN  IF j = 0 THEN 100 ELSE j

\* the while loop in closed form: `current` after k iterations from cur. A
\* run of clicks keeps the sign of cur until it lands on 0 and has the sign
\* of its direction from then on.
loop_position(cur, direction, k) ==
    IF direction = "Right"
    THEN IF cur < 0 /\ k < -cur THEN cur + k
         ELSE MathMod(MathMod(cur, 100) + MathMod(k, 100), 100)
    ELSE IF cur > 0 /\ k < cur THEN cur - k
         ELSE -MathMod(MathMod(k, 100) + 100 - cur, 100)

\* the while loop in closed form: how often k iterations from cur find
\* current == 0
loop_zeros(cur, direction, k) ==
    LET j == clicks_to_zero(cur, direction)
    IN  IF k < j THEN 0 ELSE 1 + ((k - j) \div 100)

(***************************************************************************)
(* State                                                                   *)
(***************************************************************************)
VARIABLES
    program,            \* "day_1" or "task_1": which main is running
    lines,              \* the lines the reader yields from the input file
    entry,              \* load_rotation_commands: index of the next line
    rotation_commands,  \* the commands converted so far / handed to the knob
    pc,                 \* position of the running program
    err,                \* the error main returned, "" while there is none
    constructed,        \* which knobs have been constructed
    safe_one,           \* the knob of solution one (task_1: the only knob)
    safe_two,           \* the knob of solution two
    idx,                \* index of the command the for_each is at
    current,            \* rotate_knob_solution_two: local current
    steps,              \* rotate_knob_solution_two: local steps
    out,                \* the numbers printed so far
    input,              \* parser run: the line handed to parse
    parsed,             \* parser run: what parse returned
    rendered            \* parser run: to_string of the parsed command

vars == <<program, lines, entry, rotation_commands, pc, err, constructed,
          safe_one, safe_two, idx, current, steps, out,
          input, parsed, rendered>>

parser_vars == <<input, parsed, rendered>>
driver_vars == <<program, lines, entry, rotation_commands, err, constructed,
                 safe_one, safe_two, idx, current, steps, out>>

Programs == {"day_1", "task_1"}

NotParsed == ParseErr("NotParsed", <<>>, "", "")

(***************************************************************************)
(* Driver: main, load_rotation_commands, read_input_file                   *)
(***************************************************************************)
\* read_input_file: the file opens and every line is read, or main fails
read_input_file ==
    /\ pc = "read"
    /\ \/ pc' = "load" /\ err' = err
       \/ pc' = "failed" /\ err' = "Io"
    /\ UNCHANGED <<program, lines, entry, rotation_commands, constructed,
                   safe_one, safe_two, idx, current, steps, out, parser_vars>>

\* the for loop of load_rotation_commands stepping over a line that fails
load_rotation_commands_skip ==
    /\ pc = "load"
    /\ entry <= Len(lines)
    /\ LET element == parse(lines[entry])
       IN  IF element.kind = "Ok"
           THEN rotation_commands' =
                    Append(rotation_commands,
                           Command(element.direction, element.distance))
           ELSE rotation_commands' = rotation_commands
    /\ entry' = entry + 1
    /\ UNCHANGED <<program, lines, pc, err, constructed, safe_one, safe_two,
                   idx, current, steps, out, parser_vars>>

\* one iteration of the for loop of load_rotation_commands
load_rotation_commands ==
    /\ pc = "load"
    /\ entry <= Len(lines)
    /\ LET element == parse(lines[entry])
       IN  IF element.kind = "Ok"
           THEN /\ rotation_commands' =
                       Append(rotation_commands,
                              Command(element.direction, element.distance))
                /\ entry' = entry + 1
                /\ UNCHANGED <<pc, err>>
           ELSE /\ pc' = "failed"
                /\ err' = element.kind
                /\ UNCHANGED <<rotation_commands, entry>>
    /\ UNCHANGED <<program, lines, constructed, safe_one, safe_two, idx,
                   current, steps, out, parser_vars>>

\* main without the is_empty check: the first knob is constructed at once
main_check_empty_no_bail ==
    /\ pc = "load"
    /\ entry > Len(lines)
    /\ pc' = "one"
    /\ constructed' = constructed \cup {"one"}
    /\ safe_one' = init
    /\ idx' = 1
    /\ UNCHANGED <<program, lines, entry, rotation_commands, err, safe_two,
                   current, steps, out, parser_vars>>

\* main, after load_rotation_commands returned Ok: the is_empty check and
\* the construction of the first knob
main_check_empty ==
    /\ pc = "load"
    /\ entry > Len(lines)
    /\ IF rotation_commands = <<>>
       THEN /\ pc' = "failed"
            /\ err' = "NoCommands"
            /\ UNCHANGED <<constructed, safe_one, idx>>
       ELSE /\ pc' = "one"
            /\ constructed' = constructed \cup {"one"}
            /\ safe_one' = init
            /\ idx' = 1
            /\ err' = err
    /\ UNCHANGED <<program, lines, entry, rotation_commands, safe_two,
                   current, steps, out, parser_vars>>

(***************************************************************************)
(* Solution one (day_1) and the task_1 knob: one jump per command          *)
(***************************************************************************)
\* SafeDialKnob::rotate_knob_solution_one, called by the for_each of
\* apply_rotation_commands_solution_one
rotate_knob_solution_one ==
    /\ pc = "one"
    /\ program = "day_1"
    /\ idx <= Len(rotation_commands)
    /\ LET command == rotation_commands[idx]
       IN  \/ /\ rotation_overflows(safe_one.current_position, command)
              /\ pc' = "panicked"
              /\ UNCHANGED <<safe_one, idx>>
           \/ /\ safe_one' = knob_after_rotation(safe_one, command)
              /\ idx' = idx + 1
              /\ pc' = pc
    /\ UNCHANGED <<program, lines, entry, rotation_commands, err, constructed,
                   safe_two, current, steps, out, parser_vars>>

\* SafeDialKnob::rotate_knob of task_1, called by execute_rotation_commands
rotate_knob ==
    /\ pc = "one"
    /\ program = "task_1"
    /\ idx <= Len(rotation_commands)
    /\ LET command == rotation_commands[idx]
       IN  \/ /\ rotation_overflows(safe_one.current_position, command)
              /\ pc' = "panicked"
              /\ UNCHANGED <<safe_one, idx>>
           \/ /\ safe_one' = knob_after_rotation(safe_one, command)
              /\ idx' = idx + 1
              /\ pc' = pc
    /\ UNCHANGED <<program, lines, entry, rotation_commands, err, constructed,
                   safe_two, current, steps, out, parser_vars>>

\* main: the first println!, with get_code_sequence of the first knob
main_print_one ==
    /\ pc = "one"
    /\ idx > Len(rotation_commands)
    /\ out' = Append(out, safe_one.zero_position_occurrence)
    /\ pc' = IF program = "day_1" THEN "init_two" ELSE "done"
    /\ UNCHANGED <<program, lines, entry, rotation_commands, err, constructed,
                   safe_one, safe_two, idx, current, steps, parser_vars>>

\* main of day_1: the second SafeDialKnob::init()
main_init_two ==
    /\ pc = "init_two"
    /\ constructed' = constructed \cup {"two"}
    /\ safe_two' = init
    /\ idx' = 1
    /\ pc' = "two"
    /\ UNCHANGED <<program, lines, entry, rotation_commands, err, safe_one,
                   current, steps, out, parser_vars>>

(***************************************************************************)
(* Solution two (day_1): one click at a time                               *)
(***************************************************************************)
\* rotate_knob_solution_two: the three lets before the loop
rotate_knob_solution_two_enter ==
    /\ pc = "two"
    /\ idx <= Len(rotation_commands)
    /\ current' = safe_two.current_position
    /\ steps' = rotation_commands[idx].distance
    /\ pc' = "two_loop"
    /\ UNCHANGED <<program, lines, entry, rotation_commands, err, constructed,
                   safe_one, safe_two, idx, out, parser_vars>>

\* the loop body looking at the position before the click instead of after
rotate_knob_solution_two_step_count_before ==
    /\ pc = "two_loop"
    /\ steps # 0
    /\ steps > -MaxUnderrun
    /\ current' = clicked(current, rotation_commands[idx].direction)
    /\ safe_two' =
           IF current = 0
           THEN [safe_two EXCEPT !.zero_position_occurrence = @ + 1]
           ELSE safe_two
    /\ steps' = steps - 1
    /\ UNCHANGED <<program, lines, entry, rotation_commands, pc, err,
                   constructed, safe_one, idx, out, parser_vars>>

\* rotate_knob_solution_two: one iteration of while steps != 0
rotate_knob_solution_two_step ==
    /\ pc = "two_loop"
    /\ steps # 0
    /\ steps > -MaxUnderrun
    /\ LET moved == clicked(current, rotation_commands[idx].direction)
       IN  /\ current' = moved
           /\ safe_two' =
                  IF moved = 0
                  THEN [safe_two EXCEPT !.zero_position_occurrence = @ + 1]
                  ELSE safe_two
    /\ steps' = steps - 1
    /\ UNCHANGED <<program, lines, entry, rotation_commands, pc, err,
                   constructed, safe_one, idx, out, parser_vars>>

\* rotate_knob_solution_two: the loop is left, current is stored
rotate_knob_solution_two_exit ==
    /\ pc = "two_loop"
    /\ steps = 0
    /\ safe_two' = [safe_two EXCEPT !.current_position = current]
    /\ idx' = idx + 1
    /\ current' = 0
    /\ pc' = "two"
    /\ UNCHANGED <<program, lines, entry, rotation_commands, err, constructed,
                   safe_one, steps, out, parser_vars>>

\* rotate_knob_solution_two as one step, the loop taken in closed form; for
\* the distances whose clicks cannot be followed one by one
rotate_knob_solution_two_run ==
    /\ pc = "two"
    /\ idx <= Len(rotation_commands)
    /\ rotation_commands[idx].distance >= 0
    /\ LET command == rotation_commands[idx]
           cur == safe_two.current_position
       IN  safe_two' =
               [current_position |->
                    loop_position(cur, command.direction, command.distance),
                zero_position_occurrence |->
                    safe_two.zero_position_occurrence
                    + loop_zeros(cur, command.direction, command.distance)]
    /\ idx' = idx + 1
    /\ UNCHANGED <<program, lines, entry, rotation_commands, pc, err,
                   constructed, safe_one, current, steps, out, parser_vars>>

\* main of day_1: the second println!
main_print_two ==
    /\ pc = "two"
    /\ idx > Len(rotation_commands)
    /\ out' = Append(out, safe_two.zero_position_occurrence)
    /\ pc' = "done"
    /\ UNCHANGED <<program, lines, entry, rotation_commands, err, constructed,
                   safe_one, safe_two, idx, current, steps, parser_vars>>

(***************************************************************************)
(* Parser run: parse one line, then render the command it returned         *)
(***************************************************************************)
call_parse ==
    /\ pc = "parse"
    /\ parsed' = parse(input)
    /\ pc' = "parsed"
    /\ UNCHANGED <<driver_vars, input, rendered>>

call_to_string ==
    /\ pc = "parsed"
    /\ parsed.kind = "Ok"
    /\ rendered' = to_string(Command(parsed.direction, parsed.distance))
    /\ pc' = "shown"
    /\ UNCHANGED <<driver_vars, input, parsed>>

(***************************************************************************)
(* Inputs                                                                  *)
(***************************************************************************)
SeqsOver(S, n) == UNION {[1..k -> S] : k \in 0..n}

\* characters of the exhaustively enumerated parser inputs
ParseAlphabet == {" ", "L", "R", "X", "a", "+", "-", "0", "1", "9"}

\* longer lines: the lines of the unit tests and the edges of i32
LongLines ==
    { <<"R", "1", "2">>, <<"L", "2", "1">>, <<"X", "9", "9">>,
      <<"R", "a", "b", "c">>, <<" ", " ", " ", " ">>,
      <<" ", "L", "6", "8", " ">>, <<"R", "1", "0", "0", "0">>,
      <<"R", "0", "0", "1", "2">>, <<"L", "+", "1", "2", "5">>,
      <<"R", "-", "1", "2", "5">>, <<"L", "1", " ", "2", "5">>,
      <<"R", "2", "1", "4", "7", "4", "8", "3", "6", "4", "7">>,
      <<"L", "2", "1", "4", "7", "4", "8", "3", "6", "4", "8">>,
      <<"L", "9", "9", "9", "9", "9", "9", "9", "9", "9", "9">>,
      <<"R", "1", "2", "3", "4", "5", "6", "7", "8", "9", "0", "1">>,
      <<"R", "-", "2", "1", "4", "7", "4", "8", "3", "6", "4", "8">>,
      <<"L", "-", "2", "1", "4", "7", "4", "8", "3", "6", "4", "9">> }

ParseInputs == SeqsOver(ParseAlphabet, MaxLen) \cup LongLines

\* distances of the exhaustively enumerated command lists
DistSet == {0, 1, 50, MaxDist}

Commands == {Command(d, n) : d \in Directions, n \in DistSet}

\* the largest distance parse returns
BigCommands == {Command(d, I32Max) : d \in Directions}

\* the example of the puzzle text: L68 L30 R48 L5 R60 L55 L1 L99 R14 L82
Example ==
    << Command("Left", 68), Command("Left", 30), Command("Right", 48),
       Command("Left", 5), Command("Right", 60), Command("Left", 55),
       Command("Left", 1), Command("Left", 99), Command("Right", 14),
       Command("Left", 82) >>

\* rotations of magnitude 1000 from several positions
ThousandLists ==
    { <<Command("Right", 1000)>>, <<Command("Left", 1000)>>,
      <<Command("Left", 68), Command("Right", 1000)>>,
      <<Command("Right", 50), Command("Left", 1000)>>,
      <<Command("Right", 1), Command("Left", 1000)>> }

\* solution two clicks `distance` times, so the lists of day_1 keep to small
\* distances; the task_1 knob jumps, so its lists also take the largest one
DialInputs(p) ==
    IF p = "day_1"
    THEN SeqsOver(Commands, MaxCmds) \cup {Example} \cup ThousandLists
    ELSE SeqsOver(Commands \cup BigCommands, MaxCmds) \cup {Example}

\* lines of the input files of the driver
DriverLines ==
    { <<"R", "5", "0">>, <<"L", "5", "0">>, <<"L", "6", "8">>, <<"R", "0">>,
      <<" ", "L", "1", " ">>, <<"R", "-", "5">>,
      <<>>, <<"X", "9", "9">>, <<"R">>, <<"R", "a", "b", "c">> }

BigLines == { <<"R", "2", "1", "4", "7", "4", "8", "3", "6", "4", "7">> }

Files(p) ==
    IF p = "day_1"
    THEN SeqsOver(DriverLines, MaxLines)
    ELSE SeqsOver(DriverLines \cup BigLines, MaxLines)

(***************************************************************************)
(* Specifications                                                          *)
(***************************************************************************)
\* the driver: main of either program, from the start
Init ==
    /\ program \in Programs
    /\ lines \in Files(program)
    /\ entry = 1
    /\ rotation_commands = <<>>
    /\ pc = "read"
    /\ err = ""
    /\ constructed = {}
    /\ safe_one = init
    /\ safe_two = init
    /\ idx = 1
    /\ current = 0
    /\ steps = 0
    /\ out = <<>>
    /\ input = <<>>
    /\ parsed = NotParsed
    /\ rendered = <<>>

\* the knobs alone: SafeDialKnob::init() and a command list to apply, as the
\* unit tests and main use them
InitDial ==
    /\ program \in Programs
    /\ lines = <<>>
    /\ entry = 1
    /\ rotation_commands \in DialInputs(program)
    /\ pc = "one"
    /\ err = ""
    /\ constructed = {"one"}
    /\ safe_one = init
    /\ safe_two = init
    /\ idx = 1
    /\ current = 0
    /\ steps = 0
    /\ out = <<>>
    /\ input = <<>>
    /\ parsed = NotParsed
    /\ rendered = <<>>

\* the parser alone: one line, parsed and rendered back
InitParse ==
    /\ program = "day_1"
    /\ lines = <<>>
    /\ entry = 1
    /\ rotation_commands = <<>>
    /\ pc = "parse"
    /\ err = ""
    /\ constructed = {}
    /\ safe_one = init
    /\ safe_two = init
    /\ idx = 1
    /\ current = 0
    /\ steps = 0
    /\ out = <<>>
    /\ input \in ParseInputs
    /\ parsed = NotParsed
    /\ rendered = <<>>

NextParse == call_parse \/ call_to_string

NextDial ==
    \/ rotate_knob_solution_one
    \/ rotate_knob
    \/ main_print_one
    \/ main_init_two
    \/ rotate_knob_solution_two_enter
    \/ rotate_knob_solution_two_step
    \/ rotate_knob_solution_two_exit
    \/ main_print_two

Next ==
    \/ read_input_file
    \/ load_rotation_commands
    \/ main_check_empty
    \/ rotate_knob_solution_one
    \/ rotate_knob
    \/ main_print_one
    \/ main_init_two
    \/ rotate_knob_solution_two_enter
    \/ rotate_knob_solution_two_step
    \/ rotate_knob_solution_two_exit
    \/ main_print_two

Spec == Init /\ [][Next]_vars
SpecDial == InitDial /\ [][NextDial]_vars
SpecParse == InitParse /\ [][NextParse]_vars

\* day_1 on lists that also hold the largest distance: solution one as in
\* the code, solution two command by command with its loop in closed form
InitDialBig ==
    /\ program = "day_1"
    /\ lines = <<>>
    /\ entry = 1
    /\ rotation_commands \in SeqsOver(Commands \cup BigCommands, MaxCmds)
    /\ pc = "one"
    /\ err = ""
    /\ constructed = {"one"}
    /\ safe_one = init
    /\ safe_two = init
    /\ idx = 1
    /\ current = 0
    /\ steps = 0
    /\ out = <<>>
    /\ input = <<>>
    /\ parsed = NotParsed
    /\ rendered = <<>>

NextDialBig ==
    \/ rotate_knob_solution_one
    \/ main_print_one
    \/ main_init_two
    \/ rotate_knob_solution_two_run
    \/ main_print_two

SpecDialBig == InitDialBig /\ [][NextDialBig]_vars

TypeOK ==
    /\ program \in Programs
    /\ pc \in {"read", "load", "failed", "one", "init_two", "two", "two_loop",
               "done", "panicked", "parse", "parsed", "shown"}
    /\ constructed \subseteq {"one", "two"}
    /\ entry \in 1..(Len(lines) + 1)
    /\ idx \in 1..(Len(rotation_commands) + 1)

(***************************************************************************)
(* The dial of the puzzle text, for the properties below                   *)
(***************************************************************************)
\* the dial position in 0..99 after the first i commands: 50 plus the sum of
\* the signed distances, modulo 100 (reduced command by command)
RECURSIVE TruePos(_, _)
TruePos(cmds, i) ==
    IF i = 0 THEN 50
    ELSE LET c == cmds[i]
             m == MathMod(c.distance, 100)
         IN  IF c.direction = "Right"
             THEN MathMod(TruePos(cmds, i - 1) + m, 100)
             ELSE MathMod(TruePos(cmds, i - 1) + 100 - m, 100)

\* how many of the first i commands leave the dial at 0
ZerosAfter(cmds, i) == Cardinality({j \in 1..i : TruePos(cmds, j) = 0})

\* how many of the clicks 1..d, starting at dial position p, land on 0
ClickZeros(p, direction, d) ==
    Cardinality({k \in 1..d :
                    IF direction = "Right" THEN MathMod(p + k, 100) = 0
                    ELSE MathMod(p - k, 100) = 0})

\* how many clicks of the first i commands land on 0
RECURSIVE ClickZerosAfter(_, _)
ClickZerosAfter(cmds, i) ==
    IF i = 0 THEN 0
    ELSE ClickZerosAfter(cmds, i - 1)
         + ClickZeros(TruePos(cmds, i - 1), cmds[i].direction, cmds[i].distance)

AllDistancesAtLeast(cmds, n) == \A i \in 1..Len(cmds) : cmds[i].distance >= n

\* the closed form of the loop agrees with the loop taken click by click:
\* inside the loop, after distance - steps iterations, for the position and
\* for the count
LoopSummaryAgrees ==
    pc = "two_loop" =>
        LET command == rotation_commands[idx]
            k == command.distance - steps
        IN  /\ current = loop_position(safe_two.current_position,
                                       command.direction, k)
            /\ safe_two.zero_position_occurrence
                   = ClickZerosAfter(rotation_commands, idx - 1)
                     + loop_zeros(safe_two.current_position,
                                  command.direction, k)

\* and the loop taken in one step counts the clicks that land on 0, on the
\* lists whose clicks can be counted one by one
LoopSummaryCounts ==
    (pc = "two" /\ AllDistancesAtLeast(rotation_commands, 0)
        /\ \A i \in 1..Len(rotation_commands) :
               rotation_commands[i].distance <= 1000)
    => /\ safe_two.zero_position_occurrence
              = ClickZerosAfter(rotation_commands, idx - 1)
       /\ MathMod(safe_two.current_position, 100)
              = TruePos(rotation_commands, idx - 1)

(***************************************************************************)
(* C1: after every command of solution one / rotate_knob and after every   *)
(* command and every click of solution two, current_position is in 0..99.  *)
(***************************************************************************)
C1_PositionInRange ==
    /\ safe_one.current_position \in 0..99
    /\ safe_two.current_position \in 0..99
    /\ pc = "two_loop" => current \in 0..99

C3_EndOfRotationCount ==
    /\ pc = "one" =>
           safe_one.zero_position_occurrence
               = ZerosAfter(rotation_commands, idx - 1)
    /\ out # <<>> =>
           out[1] = ZerosAfter(rotation_commands, Len(rotation_commands))
    /\ (out # <<>> /\ rotation_commands = Example) => out[1] = 3

(***************************************************************************)
(* C4: solution two adds to the count, for a command of distance d from    *)
(* dial position p, exactly the number of clicks k in 1..d that land on 0; *)
(* distance 0 adds 0, a rotation of 1000 adds 10, the example yields 6.    *)
(***************************************************************************)
C4_EveryClickCount ==
    LET n == Len(rotation_commands) IN
    /\ pc = "two" =>
           safe_two.zero_position_occurrence
               = ClickZerosAfter(rotation_commands, idx - 1)
    /\ pc = "two_loop" =>
           safe_two.zero_position_occurrence
               = ClickZerosAfter(rotation_commands, idx - 1)
                 + ClickZeros(TruePos(rotation_commands, idx - 1),
                              rotation_commands[idx].direction,
                              rotation_commands[idx].distance - steps)
    /\ (program = "day_1" /\ pc = "done") =>
           /\ out[2] = ClickZerosAfter(rotation_commands, n)
           /\ rotation_commands = Example => out[2] = 6
           /\ (n > 0 /\ rotation_commands[n].distance = 1000) =>
                  out[2] = ClickZerosAfter(rotation_commands, n - 1) + 10
           /\ (n > 0 /\ rotation_commands[n].distance = 0) =>
                  out[2] = ClickZerosAfter(rotation_commands, n - 1)

C4_Witness ==
    /\ program = "day_1"
    /\ pc = "done"
    /\ Len(rotation_commands) = 2
    /\ rotation_commands[2].distance = 1000
    /\ out[2] = 11

(***************************************************************************)
(* Text of a line, for the properties of the parser                        *)
(***************************************************************************)
AllWhitespace(line) == \A i \in 1..Len(line) : IsWhitespace(line[i])

\* the line without the whitespace around it, by the positions of its first
\* and last character that is not whitespace
Trimmed(line) ==
    IF AllWhitespace(line) THEN <<>>
    ELSE LET solid == {i \in 1..Len(line) : ~IsWhitespace(line[i])}
             first == CHOOSE i \in solid : \A j \in solid : i <= j
             last == CHOOSE i \in solid : \A j \in solid : i >= j
         IN  SubSeq(line, first, last)

AllDigits(s) == \A i \in 1..Len(s) : s[i] \in Digits

RECURSIVE StripZeros(_)
StripZeros(s) ==
    IF Len(s) > 1 /\ Head(s) = "0" THEN StripZeros(Tail(s)) ELSE s

\* a <= b for digit strings of the same length
RECURSIVE DigitsLeq(_, _)
DigitsLeq(a, b) ==
    IF a = <<>> THEN TRUE
    ELSE IF DigitVal(Head(a)) < DigitVal(Head(b)) THEN TRUE
    ELSE IF DigitVal(Head(a)) > DigitVal(Head(b)) THEN FALSE
    ELSE DigitsLeq(Tail(a), Tail(b))

\* the digit string s, at least one digit, denotes a number <= limit
MagnitudeAtMost(s, limit) ==
    LET t == StripZeros(s)
    IN  \/ Len(t) < Len(limit)
        \/ Len(t) = Len(limit) /\ DigitsLeq(t, limit)

I32MaxDigits == <<"2", "1", "4", "7", "4", "8", "3", "6", "4", "7">>
I32MinDigits == <<"2", "1", "4", "7", "4", "8", "3", "6", "4", "8">>

\* s is a non-negative integer literal (digits only) that fits in 32 bits
NonNegativeLiteral(s) ==
    s # <<>> /\ AllDigits(s) /\ MagnitudeAtMost(s, I32MaxDigits)

\* s is text a signed 32-bit integer can be read from: an optional sign, at
\* least one digit, the value in range
ParseableAsI32(s) ==
    /\ s # <<>>
    /\ LET body == IF Head(s) \in {"+", "-"} THEN Tail(s) ELSE s
       IN  /\ body # <<>>
           /\ AllDigits(body)
           /\ MagnitudeAtMost(body,
                  IF Head(s) = "-" THEN I32MinDigits ELSE I32MaxDigits)

\* the value of a digit string, counted from its last digit; sign is 1 or -1
RECURSIVE DigitsValue(_, _)
DigitsValue(s, sign) ==
    IF s = <<>> THEN 0
    ELSE 10 * DigitsValue(SubSeq(s, 1, Len(s) - 1), sign)
         + sign * DigitVal(s[Len(s)])

I32Value(s) ==
    IF Head(s) = "-" THEN DigitsValue(Tail(s), -1)
    ELSE IF Head(s) = "+" THEN DigitsValue(Tail(s), 1)
    ELSE DigitsValue(s, 1)

\* the line is D<n>: D is L or R, n a non-negative integer literal without
\* leading zeros that fits in i32
WellFormedLine(line) ==
    /\ Len(line) >= 2
    /\ line[1] \in {"L", "R"}
    /\ NonNegativeLiteral(Tail(line))
    /\ (Len(line) > 2 => line[2] # "0")

(***************************************************************************)
(* C5: parse answers InvalidDistance for every line whose text after the   *)
(* direction is not a non-negative integer literal that fits in 32 bits,   *)
(* sign-prefixed text included; so every command it returns has            *)
(* distance >= 0.                                                          *)
(***************************************************************************)
C5_SignedDistanceRejected ==
    pc \in {"parsed", "shown"} =>
        LET t == Trimmed(input) IN
        /\ (Len(t) >= 2 /\ t[1] \in {"L", "R"} /\ ~NonNegativeLiteral(Tail(t)))
               => parsed.kind = "InvalidDistance"
        /\ parsed.kind = "Ok" => parsed.distance >= 0

(***************************************************************************)
(* C6: parse reports the first failing step in the order: empty after      *)
(* trimming -> EmptyInput; first character not L or R -> InvalidDirection  *)
(* with Unsupported(that character), whatever follows; nothing after the   *)
(* direction -> MissingDistance; distance text not readable as i32 ->      *)
(* InvalidDistance; otherwise the command with that direction and distance.*)
(***************************************************************************)
C6_ErrorOrder ==
    pc \in {"parsed", "shown"} =>
        LET t == Trimmed(input) IN
        IF t = <<>> THEN parsed.kind = "EmptyInput"
        ELSE IF t[1] \notin {"L", "R"}
        THEN /\ parsed.kind = "InvalidDirection"
             /\ parsed.dir = t[1]
             /\ parsed.source = "Unsupported"
        ELSE IF Len(t) = 1 THEN parsed.kind = "MissingDistance"
        ELSE IF ~ParseableAsI32(Tail(t)) THEN parsed.kind = "InvalidDistance"
        ELSE /\ parsed.kind = "Ok"
             /\ parsed.direction = (IF t[1] = "L" THEN "Left" ELSE "Right")
             /\ parsed.distance = I32Value(Tail(t))

\* a bad direction followed by text that is no distance either
C6_Witness ==
    /\ pc = "parsed"
    /\ parsed.kind = "InvalidDirection"
    /\ Len(Trimmed(input)) >= 2
    /\ ~ParseableAsI32(Tail(Trimmed(input)))

(***************************************************************************)
(* C8: for every line D<n>, D in {L, R}, n a non-negative integer literal  *)
(* without leading zeros that fits in i32, parse succeeds and to_string of *)
(* the parsed command is the line itself.                                  *)
(***************************************************************************)
C8_RoundTrip ==
    WellFormedLine(input) =>
        /\ pc = "parsed" => parsed.kind = "Ok"
        /\ pc = "shown" => rendered = input

C8_Witness ==
    /\ pc = "shown"
    /\ WellFormedLine(input)
    /\ Len(input) >= 4
    /\ rendered = input

(***************************************************************************)
(* C7: if any line of the file fails to parse (a blank line included),     *)
(* load_rotation_commands fails at the first such line: no later line is   *)
(* parsed, no knob is constructed or stepped, nothing is printed, and main *)
(* ends with that error; bad lines are never skipped.                      *)
(***************************************************************************)
BadLines == {i \in 1..Len(lines) : parse(lines[i]).kind # "Ok"}

FirstBadLine == CHOOSE i \in BadLines : \A j \in BadLines : i <= j

C7_AllOrNothing ==
    BadLines # {} =>
        /\ entry <= FirstBadLine
        /\ Len(rotation_commands) < FirstBadLine
        /\ constructed = {}
        /\ safe_one = init /\ safe_two = init
        /\ out = <<>>
        /\ pc \in {"read", "load", "failed"}
        /\ (pc = "failed" /\ err # "Io") =>
               /\ entry = FirstBadLine
               /\ err = parse(lines[FirstBadLine]).kind
        /\ (pc = "load" /\ entry = FirstBadLine) =>
               ~ENABLED main_check_empty

\* a good line, then a blank line that ends the run
C7_Witness ==
    /\ pc = "failed"
    /\ Len(lines) = 2
    /\ BadLines = {2}
    /\ lines[2] = <<>>
    /\ err = "EmptyInput"
    /\ rotation_commands # <<>>

(***************************************************************************)
(* C9: the zero count never decreases: every step of either policy leaves  *)
(* it unchanged or adds exactly one; an empty command list leaves the      *)
(* count at 0 and the position at 50.                                      *)
(***************************************************************************)
C9_CountStep ==
    /\ safe_one'.zero_position_occurrence
           \in {safe_one.zero_position_occurrence,
                safe_one.zero_position_occurrence + 1}
    /\ safe_two'.zero_position_occurrence
           \in {safe_two.zero_position_occurrence,
                safe_two.zero_position_occurrence + 1}

C9_EmptyListUntouched ==
    rotation_commands = <<>> =>
        /\ safe_one = init
        /\ safe_two = init
        /\ \A i \in 1..Len(out) : out[i] = 0

C9_ZeroCountMonotone == [][C9_CountStep]_vars /\ []C9_EmptyListUntouched

\* both policies have counted, solution two more than once
C9_Witness ==
    /\ pc = "two_loop"
    /\ safe_one.zero_position_occurrence >= 1
    /\ safe_two.zero_position_occurrence >= 2

(***************************************************************************)
(* C10: solution two terminates on every command parse can return: the     *)
(* loop of rotate_knob_solution_two performs exactly `distance` clicks     *)
(* (none for distance 0) and then stops.                                   *)
(***************************************************************************)
\* inside the loop the clicks performed so far, distance - steps, are
\* between 0 and distance
C10_ExactlyDistanceClicks ==
    pc = "two_loop" =>
        LET distance == rotation_commands[idx].distance
        IN  (distance - steps) \in 0..distance

(***************************************************************************)
(* C11: the two policies track the same dial: on the same command list,    *)
(* after the i-th command the current_position stored by solution one      *)
(* equals the current_position stored by solution two, for every i.        *)
(***************************************************************************)
\* the position solution one stores after the first i commands
RECURSIVE position_one(_, _)
position_one(cmds, i) ==
    IF i = 0 THEN init.current_position
    ELSE rotated(position_one(cmds, i - 1), cmds[i])

C11_SamePositions ==
    /\ (program = "day_1" /\ pc = "two") =>
           safe_two.current_position
               = position_one(rotation_commands, idx - 1)
    /\ (program = "day_1" /\ pc = "done") =>
           safe_two.current_position = safe_one.current_position

(***************************************************************************)
(* C12: under both policies, as long as no addition or subtraction         *)
(* overflows, the stored current_position after every command and every    *)
(* click is strictly between -100 and 100 and congruent modulo 100 to 50   *)
(* plus the signed distances applied so far; so it is 0 exactly when the   *)
(* dial is at 0.                                                           *)
(***************************************************************************)
\* none of the first i commands overflows in solution one / rotate_knob
NoOverflowWithin(cmds, i) ==
    \A j \in 1..i : ~rotation_overflows(position_one(cmds, j - 1), cmds[j])

\* the dial position in 0..99 after k clicks in `direction` from p
DialAfterClicks(p, direction, k) ==
    IF direction = "Right" THEN MathMod(p + MathMod(k, 100), 100)
    ELSE MathMod(p + 100 - MathMod(k, 100), 100)

\* stored is a representative of dial position p
Represents(stored, p) ==
    /\ stored > -100 /\ stored < 100
    /\ MathMod(stored, 100) = p
    /\ (stored = 0) <=> (p = 0)

C12_CongruentPosition ==
    /\ (pc = "one" /\ NoOverflowWithin(rotation_commands, idx - 1)) =>
           Represents(safe_one.current_position,
                      TruePos(rotation_commands, idx - 1))
    /\ pc = "two" =>
           Represents(safe_two.current_position,
                      TruePos(rotation_commands, idx - 1))
    /\ pc = "two_loop" =>
           Represents(current,
                      DialAfterClicks(TruePos(rotation_commands, idx - 1),
                                      rotation_commands[idx].direction,
                                      rotation_commands[idx].distance - steps))

\* a negative stored position during the clicks of solution two, after
\* solution one stored a negative position as well
C12_Witness ==
    /\ pc = "two_loop"
    /\ current < 0
    /\ safe_one.current_position < 0
    /\ steps > 0

(***************************************************************************)
(* C13: the arithmetic of solution one / rotate_knob stays inside i32: for *)
(* every reachable current_position and every distance in 0..2^31-1 the    *)
(* sum current_position + distance (Right) and the difference              *)
(* current_position - distance (Left) do not overflow.                     *)
(***************************************************************************)
\* position + distance, or position - distance, is inside [I32Min, I32Max]
FitsI32(position, command) ==
    IF command.direction = "Right"
    THEN position <= I32Max - command.distance
    ELSE position >= I32Min + command.distance

C13_NoOverflow ==
    /\ pc # "panicked"
    /\ (pc = "one" /\ idx <= Len(rotation_commands)) =>
           FitsI32(safe_one.current_position, rotation_commands[idx])

(***************************************************************************)
(* C14: when the input file yields no commands, main ends with "no         *)
(* commands to execute" before any knob is constructed and prints nothing; *)
(* results are printed, solution one's first and then solution two's from  *)
(* a freshly initialised knob, only when the command list is not empty.    *)
(***************************************************************************)
C14_EmptyInput ==
    /\ lines = <<>> =>
           /\ pc \in {"read", "load", "failed"}
           /\ constructed = {}
           /\ out = <<>>
           /\ (pc = "failed" /\ err # "Io") => err = "NoCommands"
    /\ (constructed # {} \/ out # <<>>) => rotation_commands # <<>>
    /\ Len(out) <= (IF program = "day_1" THEN 2 ELSE 1)
    /\ Len(out) >= 1 =>
           "one" \in constructed /\ out[1] = safe_one.zero_position_occurrence
    /\ Len(out) = 2 =>
           "two" \in constructed /\ out[2] = safe_two.zero_position_occurrence
    /\ "two" \in constructed => Len(out) >= 1
    /\ (pc = "two" /\ idx = 1) => safe_two = init

C14_Witness ==
    /\ pc = "failed"
    /\ lines = <<>>
    /\ err = "NoCommands"
    /\ constructed = {}
    /\ out = <<>>

====
